---------------------------- MODULE Spec2Model ----------------------------
(***************************************************************************)
(* A model of the classical-cipher search engine of src/src/main.rs:       *)
(* the inverse transforms, the English scorer, the frequency-driven key    *)
(* derivation, the Index-of-Coincidence estimator, the mutex-guarded       *)
(* top-3 heap filled by parallel workers, and the hand-off of the result   *)
(* from the spawned search thread to the polling update() loop.            *)
(*                                                                         *)
(* Characters are ASCII byte codes ('a' = 97, 'A' = 65), so the byte       *)
(* arithmetic of the code is the arithmetic of the model.  Rust indices    *)
(* are 0-based and TLA+ sequences 1-based: a Rust index i is position      *)
(* i + 1 of the sequence.  For a function f that can panic, f_panics       *)
(* says on which arguments it does, and f is its value on the others.      *)
(***************************************************************************)
EXTENDS Integers, Sequences, FiniteSets, TLC

\* --------------------------------------------------------------- bounds
\* Largest max_key_length / period the user configures in a search.
MaxKeyLen == 3
\* Longest ciphertext handed to a search.
MaxTextLen == 2
\* Longest key of the searches whose termination is checked.
MaxLiveKeyLen == 2
\* Longest text of the transposition round trips, and of the Vigenere /
\* Beaufort round trips.
MaxPlainLen == 6
MaxPolyLen == 3
\* Longest shift vector of the Vigenere / Beaufort round trips.
MaxShiftLen == 2
\* Longest text and largest slider value of the Index-of-Coincidence run.
MaxIcLen == 4
MaxIcPeriod == 3

\* ------------------------------------------------------ program constants
\* `if heap_guard.len() > 3` : the capacity of the heap of the
\* transposition searches.
HeapCapacity == 3
\* `.take(3)` in decrypt_vigenere, BEAUFORT_TOP_LETTERS in decrypt_beaufort.
VigenereTopLetters == 3
BeaufortTopLetters == 2
\* `scored_results.truncate(5)`.
PolyKeep == 5
\* `(pos + 22) % 26` and `(pos + 4) % 26`.
VigenereEShift == 22
BeaufortEShift == 4

\* ------------------------------------------------------------ characters
Letters == <<"a","b","c","d","e","f","g","h","i","j","k","l","m",
             "n","o","p","q","r","s","t","u","v","w","x","y","z">>

\* The byte of a lowercase letter: 'a' as u8 = 97.
Ord == [c \in {Letters[i] : i \in 1..26} |->
          96 + (CHOOSE i \in 1..26 : Letters[i] = c)]

\* A &str literal as its bytes.
Str(s) == [i \in 1..Len(s) |-> Ord[s[i]]]

is_ascii_alphabetic(c) == (c >= 65 /\ c <= 90) \/ (c >= 97 /\ c <= 122)
is_uppercase(c) == c >= 65 /\ c <= 90
to_ascii_lowercase(c) == IF is_uppercase(c) THEN c + 32 ELSE c

\* str::to_lowercase on ASCII text.
to_lowercase(text) == [i \in 1..Len(text) |-> to_ascii_lowercase(text[i])]

\* All sequences over S of length at most n.
RECURSIVE SeqsUpTo(_, _)
SeqsUpTo(S, n) ==
  IF n = 0 THEN {<<>>}
  ELSE LET shorter == SeqsUpTo(S, n - 1)
       IN shorter \cup {Append(t, c) : t \in {u \in shorter : Len(u) = n - 1}, c \in S}

RECURSIVE SumSeq(_)
SumSeq(s) == IF s = <<>> THEN 0 ELSE Head(s) + SumSeq(Tail(s))

Min(a, b) == IF a < b THEN a ELSE b

\* ---------------------------------------------------------- permutations
\* (0..n).permutations(n) of itertools: every permutation of 0..n-1, in
\* lexicographic order; one empty permutation for n = 0.
RECURSIVE PermsOfSet(_)
PermsOfSet(S) ==
  IF S = {} THEN << <<>> >>
  ELSE LET RECURSIVE From(_)
           From(x) ==
             IF x > (CHOOSE m \in S : \A y \in S : y <= m) THEN <<>>
             ELSE IF x \in S
                  THEN LET rest == PermsOfSet(S \ {x})
                       IN [i \in 1..Len(rest) |-> <<x>> \o rest[i]] \o From(x + 1)
                  ELSE From(x + 1)
       IN From(0)

\* Mutant: the last permutation of two or more is left out.
permutationsButLast(n) ==
  LET all == PermsOfSet(0..(n - 1))
  IN IF Len(all) > 1 THEN SubSeq(all, 1, Len(all) - 1) ELSE all

permutations(n) == PermsOfSet(0..(n - 1))

\* The permutations of each key length, computed once.
PermTable == [n \in 0..(MaxKeyLen + 1) |-> permutations(n)] @@ <<>>
PermsOfLen(n) == IF n \in DOMAIN PermTable THEN PermTable[n] ELSE permutations(n)

\* ------------------------------------------------------- Transform Library
\* Mutant: the key used as it is, not inverted.
KeyNotInverted(key) == [j1 \in 1..Len(key) |-> key[j1]]

\* key_inv of columnar_inv: `key_inv = vec![0; k_l]; key_inv[k] = i` for
\* each (i, k) of the key in order, so the last i writing a slot stays and a
\* slot no k names keeps 0.  Entry j + 1 is key_inv[j], a 0-based index.
KeyInv(key) ==
  [j1 \in 1..Len(key) |->
     LET writers == {i \in 1..Len(key) : key[i] = j1 - 1}
     IN IF writers = {} THEN 0
        ELSE (CHOOSE i \in writers : \A w \in writers : w <= i) - 1]

\* Mutant: the transpose layout always adds r, also for a column below r.
RECURSIVE ColumnWritesFixedAdjust(_, _, _, _, _)
ColumnWritesFixedAdjust(key_inv, idx, offset, n, transpose) ==
  IF idx > Len(key_inv) THEN <<>>
  ELSE LET k_l == Len(key_inv)
           s_l == n \div k_l
           r == n % k_l
           col == key_inv[idx]
           row_len == IF col < r THEN s_l + 1 ELSE s_l
           block == [row1 \in 1..row_len |->
                       [c_index |-> offset + (row1 - 1),
                        o_index |-> IF transpose
                                    THEN col * s_l + (row1 - 1) + r
                                    ELSE (row1 - 1) * k_l + col]]
       IN block \o ColumnWritesFixedAdjust(key_inv, idx + 1, offset + row_len, n, transpose)

\* The writes `output[o_index] = chars[c_index]` of columnar_inv in program
\* order, from column number idx (1-based position in key_inv) on, the
\* cursor standing at offset.
RECURSIVE ColumnWrites(_, _, _, _, _)
ColumnWrites(key_inv, idx, offset, n, transpose) ==
  IF idx > Len(key_inv) THEN <<>>
  ELSE LET k_l == Len(key_inv)
           s_l == n \div k_l
           r == n % k_l
           col == key_inv[idx]
           row_len == IF col < r THEN s_l + 1 ELSE s_l
           block == [row1 \in 1..row_len |->
                       [c_index |-> offset + (row1 - 1),
                        o_index |-> IF transpose
                                    THEN col * s_l + (row1 - 1)
                                         + (IF col < r THEN col ELSE r)
                                    ELSE (row1 - 1) * k_l + col]]
       IN block \o ColumnWrites(key_inv, idx + 1, offset + row_len, n, transpose)

\* columnar_inv panics on `n / k_l` with an empty key, on `key_inv[k]` with
\* a key entry out of range, and on an index beyond `chars` or `output`.
\* text.len() counts bytes and the model's texts are ASCII, so n is also
\* the number of chars.
columnar_inv_panics(text, key, transpose) ==
  LET n == Len(text)
      k_l == Len(key)
  IN \/ k_l = 0
     \/ \E i \in 1..k_l : key[i] >= k_l
     \/ LET writes == ColumnWrites(KeyInv(key), 1, 0, n, transpose)
        IN \E w \in 1..Len(writes) :
              writes[w].c_index >= n \/ writes[w].o_index >= n

\* columnar_inv(text, key, transpose): `output = vec!['\0'; n]`, then the
\* writes in order, a later write of a slot replacing an earlier one.
columnar_inv(text, key, transpose) ==
  LET n == Len(text)
      writes == ColumnWrites(KeyInv(key), 1, 0, n, transpose)
  IN [p1 \in 1..n |->
        LET hits == {w \in 1..Len(writes) : writes[w].o_index = p1 - 1}
        IN IF hits = {} THEN 0          \* the '\0' filler
           ELSE text[writes[CHOOSE w \in hits : \A v \in hits : v <= w].c_index + 1]]

\* periodic_inv panics on `chars.chunks(period)` with period 0 (whatever
\* the text), and on `chunk_vec[pos]` with a key entry out of range when
\* the text has a complete chunk.
periodic_inv_panics(text, key) ==
  LET period == Len(key)
  IN \/ period = 0
     \/ Len(text) >= period /\ \E i \in 1..period : key[i] >= period

\* Mutant: `chunk_vec[i] = chunk[pos]`, the permutation applied the other
\* way round.
periodic_inv_gather(text, key) ==
  LET period == Len(key)
      n == Len(text)
  IN [p1 \in 1..n |->
        LET start == ((p1 - 1) \div period) * period
            pos == (p1 - 1) % period
        IN IF start + period > n THEN text[p1]
           ELSE text[start + key[pos + 1] + 1]]

\* Mutant: a last chunk shorter than the period is left out of the result.
periodic_inv_tail_dropped(text, key) ==
  LET period == Len(key)
      n == Len(text) - (Len(text) % period)
  IN [p1 \in 1..n |->
        LET start == ((p1 - 1) \div period) * period
            pos == (p1 - 1) % period
            writers == {i \in 1..period : key[i] = pos}
        IN text[start + (CHOOSE i \in writers : \A w \in writers : w <= i)]]

\* periodic_inv(text, key): in a complete chunk `chunk_vec[pos] = chunk[i]`
\* for each (i, pos) of the key in order, chunk_vec starting as a copy of
\* the chunk; a shorter last chunk is copied.
periodic_inv(text, key) ==
  LET period == Len(key)
      n == Len(text)
  IN [p1 \in 1..n |->
        LET start == ((p1 - 1) \div period) * period
            pos == (p1 - 1) % period
            writers == {i \in 1..period : key[i] = pos}
        IN IF start + period > n THEN text[p1]
           ELSE IF writers = {} THEN text[p1]
           ELSE text[start + (CHOOSE i \in writers : \A w \in writers : w <= i)]]

\* Mutant: the base is always 'a', whatever the case of c.
VigenereCharLowerBase(c, shift) == ((c - 97 + 26 - (shift % 256)) % 26) + 97

\* The u8 values computed one after the other by
\* `(c as u8 - base + 26 - shift as u8) % 26 + base`, before any wrapping.
VigenereByteSteps(c, shift) ==
  LET base == IF is_uppercase(c) THEN 65 ELSE 97
  IN <<c - base, c - base + 26, c - base + 26 - (shift % 256),
       ((c - base + 26 - (shift % 256)) % 26) + base>>

\* The u8 values computed one after the other by
\* `(shift as u8 + 26 - (c as u8 - base)) % 26 + base`, before any wrapping.
BeaufortByteSteps(c, shift) ==
  LET base == IF is_uppercase(c) THEN 65 ELSE 97
  IN <<c - base, (shift % 256) + 26, (shift % 256) + 26 - (c - base),
       (((shift % 256) + 26 - (c - base)) % 26) + base>>

\* `decrypted = (c - base + 26 - shift as u8) % 26 + base` of
\* decrypt_vigenere, for an alphabetic byte c.
VigenereChar(c, shift) ==
  LET base == IF is_uppercase(c) THEN 65 ELSE 97
  IN ((c - base + 26 - (shift % 256)) % 26) + base

\* `decrypted = (shift as u8 + 26 - (c - base)) % 26 + base` of
\* decrypt_beaufort.
BeaufortChar(c, shift) ==
  LET base == IF is_uppercase(c) THEN 65 ELSE 97
  IN (((shift % 256) + 26 - (c - base)) % 26) + base

\* The loop over text.chars().enumerate() of decrypt_vigenere that builds
\* `result` for one key; period = key.len() there (`if key.len() == period`).
VigenereDecrypt(text, key) ==
  [i1 \in 1..Len(text) |->
     IF is_ascii_alphabetic(text[i1])
     THEN VigenereChar(text[i1], key[((i1 - 1) % Len(key)) + 1])
     ELSE text[i1]]

\* The same loop of decrypt_beaufort.
BeaufortDecrypt(text, key) ==
  [i1 \in 1..Len(text) |->
     IF is_ascii_alphabetic(text[i1])
     THEN BeaufortChar(text[i1], key[((i1 - 1) % Len(key)) + 1])
     ELSE text[i1]]

\* ------------------------------------------------------------------ Scorer
\* The weighted tables of main.rs; a &str is written as its characters.
COMMON_TRIGRAMS ==
  << <<<<"t","h","e">>, 100>>, <<<<"a","n","d">>, 80>>, <<<<"i","n","g">>, 70>>, <<<<"e","n","t">>, 60>>, <<<<"i","o","n">>, 55>>,
     <<<<"h","e","r">>, 50>>, <<<<"f","o","r">>, 45>>, <<<<"t","h","a">>, 40>>, <<<<"n","t","h">>, 35>>, <<<<"i","n","t">>, 30>>,
     <<<<"e","r","e">>, 25>>, <<<<"t","i","o">>, 25>>, <<<<"t","e","r">>, 25>>, <<<<"e","s","t">>, 25>>, <<<<"e","r","s">>, 25>>,
     <<<<"a","t","i">>, 25>>, <<<<"h","a","t">>, 25>>, <<<<"a","t","e">>, 25>>, <<<<"a","l","l">>, 25>>, <<<<"e","t","h">>, 25>> >>

COMMON_BIGRAMS ==
  << <<<<"t","h">>, 100>>, <<<<"h","e">>, 90>>, <<<<"i","n">>, 80>>, <<<<"e","r">>, 70>>, <<<<"a","n">>, 60>>,
     <<<<"r","e">>, 50>>, <<<<"o","n">>, 45>>, <<<<"a","t">>, 40>>, <<<<"e","n">>, 35>>, <<<<"n","d">>, 30>>,
     <<<<"t","i">>, 30>>, <<<<"e","s">>, 30>>, <<<<"o","r">>, 30>>, <<<<"t","e">>, 30>>, <<<<"o","f">>, 30>> >>

COMMON_WORDS ==
  << <<<<"t","h","e">>, 300>>, <<<<"b","e">>, 270>>, <<<<"t","o">>, 240>>, <<<<"o","f">>, 210>>, <<<<"a","n","d">>, 180>>,
     <<<<"a">>, 165>>, <<<<"i","n">>, 150>>, <<<<"t","h","a","t">>, 135>>, <<<<"h","a","v","e">>, 120>>, <<<<"i">>, 105>>,
     <<<<"i","t">>, 90>>, <<<<"f","o","r">>, 90>>, <<<<"n","o","t">>, 90>>, <<<<"o","n">>, 90>>, <<<<"w","i","t","h">>, 90>>,
     <<<<"h","e">>, 90>>, <<<<"a","s">>, 90>>, <<<<"y","o","u">>, 90>>, <<<<"d","o">>, 90>>, <<<<"a","t">>, 90>>,
     <<<<"t","h","i","s">>, 90>>, <<<<"b","u","t">>, 90>>, <<<<"h","i","s">>, 90>>, <<<<"b","y">>, 90>>, <<<<"f","r","o","m">>, 90>>,
     <<<<"t","h","e","y">>, 90>>, <<<<"w","e">>, 90>>, <<<<"s","a","y">>, 90>>, <<<<"h","e","r">>, 90>>, <<<<"s","h","e">>, 90>> >>

CHAR_FREQUENCIES ==
  << <<<<"e">>, 100>>, <<<<"t">>, 90>>, <<<<"a">>, 80>>, <<<<"o">>, 75>>, <<<<"i">>, 70>>, <<<<"n">>, 65>>,
     <<<<"s">>, 60>>, <<<<"h">>, 55>>, <<<<"r">>, 50>>, <<<<"d">>, 45>>, <<<<"l">>, 40>>, <<<<"c">>, 35>> >>
\* text.matches(pat).count(): the matches found scanning left to right, the
\* scan resuming after the end of each match (matches do not overlap).
RECURSIVE MatchCount(_, _, _)
MatchCount(text, pat, from) ==
  IF from + Len(pat) - 1 > Len(text) THEN 0
  ELSE IF SubSeq(text, from, from + Len(pat) - 1) = pat
       THEN 1 + MatchCount(text, pat, from + Len(pat))
       ELSE MatchCount(text, pat, from + 1)

\* The sum of count * weight over one table.
TableScore(text, table) ==
  SumSeq([i \in 1..Len(table) |-> MatchCount(text, Str(table[i][1]), 1) * table[i][2]])

\* english_score(text): case-fold, then trigrams, bigrams, words and
\* character frequencies.
english_score(text) ==
  LET lower == to_lowercase(text)
  IN TableScore(lower, COMMON_TRIGRAMS) + TableScore(lower, COMMON_BIGRAMS)
     + TableScore(lower, COMMON_WORDS) + TableScore(lower, CHAR_FREQUENCIES)
\* The scores of the texts the transposition searches decrypt to, computed
\* once; Score is english_score.
SearchAlphabet == {Ord["h"], Ord["e"]}
ScoreTable == [t \in SeqsUpTo(SearchAlphabet, MaxTextLen + 1) |-> english_score(t)] @@ <<>>
Score(text) == IF text \in DOMAIN ScoreTable THEN ScoreTable[text] ELSE english_score(text)

\* ------------------------------------------- ordering of the heap's tuples
\* Vec / String comparison: lexicographic, a proper prefix being smaller.
RECURSIVE SeqLess(_, _)
SeqLess(a, b) ==
  IF b = <<>> THEN FALSE
  ELSE IF a = <<>> THEN TRUE
  ELSE IF Head(a) # Head(b) THEN Head(a) < Head(b)
  ELSE SeqLess(Tail(a), Tail(b))

\* (score, decrypted_text, permutation) < (score, decrypted_text, permutation).
TupleLess(a, b) ==
  \/ a.score < b.score
  \/ a.score = b.score /\ SeqLess(a.text, b.text)
  \/ a.score = b.score /\ a.text = b.text /\ SeqLess(a.key, b.key)

\* Mutant: a max-heap without Reverse, whose pop removes the greatest tuple.
HeapPoppedGreatest(h) == CHOOSE m \in h : \A o \in h : o = m \/ TupleLess(o, m)

\* BinaryHeap<Reverse<_>>::pop removes the greatest Reverse, which is the
\* smallest tuple.
HeapPopped(h) == CHOOSE m \in h : \A o \in h : o = m \/ TupleLess(m, o)

\* Mutant: the heap is trimmed only above 4 entries.
HeapOverCapacityLate(h) == Cardinality(h) > HeapCapacity + 1

\* Mutant: `>=` for `>`, which evicts one insert early.
HeapOverCapacityEarly(h) == Cardinality(h) >= HeapCapacity

\* `if heap_guard.len() > 3 { heap_guard.pop(); }`
HeapOverCapacity(h) == Cardinality(h) > HeapCapacity

\* Mutant: the sort without Reverse, smallest tuple first.
SortRankedAscending(h) ==
  [i \in 1..Cardinality(h) |->
     CHOOSE m \in h : Cardinality({o \in h : TupleLess(o, m)}) = i - 1]

\* `best.sort_by(|a, b| a.cmp(b))` on the Reverse-wrapped tuples: greatest
\* tuple first.  The tuples of one search differ in their permutation.
SortRanked(h) ==
  [i \in 1..Cardinality(h) |->
     CHOOSE m \in h : Cardinality({o \in h : TupleLess(m, o)}) = i - 1]

\* The conversion of the sorted tuples to Candidates: name "Candidate i",
\* the score, and the text "Key: {key}\nText: {text}" kept as its two parts.
ToCandidates(best) ==
  [i \in 1..Len(best) |->
     [name |-> i, score |-> best[i].score,
      text |-> [key |-> best[i].key, text |-> best[i].text]]]

\* ------------------------------------------------ polyalphabetic searches
\* `char_groups[i % period].push(c)` divides by zero at the first
\* character when period is 0.
CharGroups_panics(text, period) == period = 0 /\ Len(text) > 0

\* char_groups: `vec![Vec::new(); period]`, character i going to group
\* i % period.
CharGroups(text, period) ==
  [g1 \in 1..period |->
     LET idxs == {i1 \in 1..Len(text) : (i1 - 1) % period = g1 - 1}
     IN [k \in 1..Cardinality(idxs) |->
           text[CHOOSE i1 \in idxs : Cardinality({j \in idxs : j < i1}) = k - 1]]]

\* freq_table of one group: entry p + 1 counts letter p, case-folded.
FreqTable(group) ==
  [p1 \in 1..26 |->
     Cardinality({i \in 1..Len(group) :
        is_ascii_alphabetic(group[i]) /\ to_ascii_lowercase(group[i]) - 97 = p1 - 1})]

\* freq_positions.sort_by_key(Reverse(count)) then take(n): the letters by
\* descending count, the stable sort keeping equal counts in letter order.
TopPositions(freq, n) ==
  [k \in 1..n |->
     (CHOOSE p1 \in 1..26 :
        Cardinality({q1 \in 1..26 : freq[q1] > freq[p1]
                                    \/ (freq[q1] = freq[p1] /\ q1 < p1)}) = k - 1) - 1]

\* Mutant: the constant is subtracted from the letter, not added to it.
KeyPositionsSubtracted(groups, n, eshift) ==
  [g \in 1..Len(groups) |->
     LET top == TopPositions(FreqTable(groups[g]), n)
     IN [k \in 1..n |-> (top[k] + 26 - eshift) % 26]]

\* key_positions: per key position the shifts mapping each top letter to 'e'.
KeyPositions(groups, n, eshift) ==
  [g \in 1..Len(groups) |->
     LET top == TopPositions(FreqTable(groups[g]), n)
     IN [k \in 1..n |-> (top[k] + eshift) % 26]]

\* Mutant: the keys of the positions before are paired with the shifts of
\* the new position one to one, not each with each.
RECURSIVE KeyCandidatesZipped(_, _)
KeyCandidatesZipped(key_positions, upto) ==
  IF upto = 0 THEN <<>>
  ELSE LET shifts == key_positions[upto]
           prev == KeyCandidatesZipped(key_positions, upto - 1)
       IN IF prev = <<>>
          THEN [k \in 1..Len(shifts) |-> <<shifts[k]>>]
          ELSE [k \in 1..Len(prev) |-> Append(prev[k], shifts[((k - 1) % Len(shifts)) + 1])]

\* key_candidates: the combinations of one shift per position, built
\* position by position, the first position varying slowest.
RECURSIVE KeyCandidates(_, _)
KeyCandidates(key_positions, upto) ==
  IF upto = 0 THEN <<>>
  ELSE LET shifts == key_positions[upto]
           n == Len(shifts)
           prev == KeyCandidates(key_positions, upto - 1)
       IN IF prev = <<>>
          THEN [k \in 1..n |-> <<shifts[k]>>]
          ELSE [k \in 1..(Len(prev) * n) |->
                  Append(prev[((k - 1) \div n) + 1], shifts[((k - 1) % n) + 1])]

\* `scored_results.sort_by(|a, b| b.2.partial_cmp(&a.2).unwrap())`: a stable
\* sort by descending score.
SortByScoreDesc(rs) ==
  [i \in 1..Len(rs) |->
     rs[CHOOSE j \in 1..Len(rs) :
          Cardinality({k \in 1..Len(rs) :
             rs[k].score > rs[j].score \/ (rs[k].score = rs[j].score /\ k < j)}) = i - 1]]

\* truncate(5)
Truncate(rs, n) == SubSeq(rs, 1, Min(Len(rs), n))

\* The loop over key_candidates and what follows it: each key of the
\* period's length decrypts the text, the results are sorted by descending
\* score, cut to 5 and turned into Candidates.  key_str is
\* `shift as u8 + b'a'` per shift.
PolyRank(text, period, keys, beaufort) ==
  LET valid == SelectSeq(keys, LAMBDA k : Len(k) = period)
      scored == [i \in 1..Len(valid) |->
                   LET res == IF beaufort THEN BeaufortDecrypt(text, valid[i])
                              ELSE VigenereDecrypt(text, valid[i])
                   IN [key |-> [j \in 1..Len(valid[i]) |-> (valid[i][j] % 256) + 97],
                       text |-> res, score |-> english_score(res)]]
      top == Truncate(SortByScoreDesc(scored), PolyKeep)
  IN [i \in 1..Len(top) |->
        [name |-> i, score |-> top[i].score,
         text |-> [key |-> top[i].key, text |-> top[i].text]]]

\* The body shared by decrypt_vigenere and decrypt_beaufort, which differ in
\* the number of top letters, the shift constant and the decryption rule
\* (selected by beaufort).
DecryptPoly(text, period, n, eshift, beaufort) ==
  LET groups == CharGroups(text, period)
      keys == KeyCandidates(KeyPositions(groups, n, eshift), Len(groups))
  IN PolyRank(text, period, keys, beaufort)

\* Both panic exactly where the grouping loop does.
decrypt_poly_panics(text, period) == CharGroups_panics(text, period)

decrypt_vigenere(text, period) ==
  DecryptPoly(text, period, VigenereTopLetters, VigenereEShift, FALSE)

decrypt_beaufort(text, period) ==
  DecryptPoly(text, period, BeaufortTopLetters, BeaufortEShift, TRUE)
\* ===================================================================== state
VARIABLES
  input,                   \* MyApp: my_string, cipher_type, max_key_length,
                           \* period, check_all_periods, transpose
  decryption_in_progress,  \* MyApp.decryption_in_progress
  result_receiver,         \* MyApp.result_receiver is Some(..)
  show_result,             \* MyApp.show_result
  candidates,              \* MyApp.candidates
  channel,                 \* the mpsc channel of the running search: the
                           \* messages queued and whether the Sender lives
  thread,                  \* where the spawned search thread stands
  tasks,                   \* the rayon for_each: one task per key length /
                           \* period, its place in its permutation loop
  heap,                    \* the BinaryHeap behind the Mutex
  lock,                    \* the tasks holding the MutexGuard
  result,                  \* the Vec<Candidate> decrypt_with_transpose returned
  discarded,               \* history: every tuple popped in this search
  sent,                    \* history: messages sent by this search's thread
  tf,                      \* the transform round trip under test
  ic                       \* the "Find IC" run under test

vars == <<input, decryption_in_progress, result_receiver, show_result, candidates,
          channel, thread, tasks, heap, lock, result, discarded, sent, tf, ic>>

appVars == <<decryption_in_progress, result_receiver, show_result, candidates>>
searchVars == <<tasks, heap, lock, discarded>>

\* MyApp::default(): period "3", max_key_length "8", the flags false.
DefaultPeriod == 3
DefaultMaxKeyLength == 8

\* The ciphertexts searched: the empty text and the texts of MaxTextLen
\* letters.
SearchTexts == {t \in SeqsUpTo(SearchAlphabet, MaxTextLen) : Len(t) \in {0, MaxTextLen}}

\* The settings a search is started with.  period and check_all_periods,
\* which Columnar does not read, and max_key_length, which Vigenere and
\* Beaufort do not read, keep their defaults; transpose, which only
\* Columnar reads, varies in the sequential searches and in the Periodic
\* search of one period.
Inputs ==
  {[my_string |-> t, cipher_type |-> "Columnar", max_key_length |-> m,
    period |-> DefaultPeriod, check_all_periods |-> FALSE, transpose |-> tr] :
      t \in SearchTexts, m \in 0..MaxKeyLen, tr \in BOOLEAN}
  \cup
  {in \in {[my_string |-> t, cipher_type |-> "Periodic", max_key_length |-> m,
             period |-> p, check_all_periods |-> c, transpose |-> tr] :
               t \in SearchTexts, m \in 0..MaxKeyLen, p \in 0..MaxKeyLen,
               c \in BOOLEAN, tr \in BOOLEAN} :
      in.check_all_periods => ~in.transpose}
  \cup
  {[my_string |-> t, cipher_type |-> ct, max_key_length |-> DefaultMaxKeyLength,
    period |-> p, check_all_periods |-> FALSE, transpose |-> tr] :
      t \in SearchTexts, ct \in {"Vigenere", "Beaufort"}, p \in 0..MaxKeyLen,
      tr \in BOOLEAN}

NoCandidate == [score |-> 0, text |-> <<>>, key |-> <<>>]
NoTasks == [k \in {} |-> [pc |-> "ready", idx |-> 0, local |-> NoCandidate]]
TfIdle == [stage |-> "idle"]
IcIdle == [stage |-> "idle"]

\* MyApp::default() with the text and settings the user has entered.
Init ==
  /\ input \in Inputs
  /\ decryption_in_progress = FALSE
  /\ result_receiver = FALSE
  /\ show_result = FALSE
  /\ candidates = <<>>
  /\ channel = [queue |-> <<>>, sender |-> FALSE]
  /\ thread = "idle"
  /\ tasks = NoTasks
  /\ heap = {}
  /\ lock = {}
  /\ result = <<>>
  /\ discarded = {}
  /\ sent = 0
  /\ tf = TfIdle
  /\ ic = IcIdle

\* ------------------------------------------------------------ the UI thread
\* Mutant: the Decrypt button is enabled during a decryption too.
ClickDecryptWhileRunning ==
  /\ ~show_result
  /\ decryption_in_progress' = TRUE
  /\ result_receiver' = TRUE
  /\ channel' = [queue |-> <<>>, sender |-> TRUE]
  /\ thread' = "started"
  /\ tasks' = NoTasks
  /\ heap' = {}
  /\ lock' = {}
  /\ result' = <<>>
  /\ discarded' = {}
  /\ sent' = 0
  /\ UNCHANGED <<input, show_result, candidates, tf, ic>>

\* update(), the Decrypt button: enabled while no decryption is in
\* progress; creates the channel, keeps the receiver, spawns the thread.
\* The user closes the window of the last results before the next search.
ClickDecrypt ==
  /\ ~decryption_in_progress
  /\ ~show_result
  /\ decryption_in_progress' = TRUE
  /\ result_receiver' = TRUE
  /\ channel' = [queue |-> <<>>, sender |-> TRUE]
  /\ thread' = "started"
  /\ tasks' = NoTasks
  /\ heap' = {}
  /\ lock' = {}
  /\ result' = <<>>
  /\ discarded' = {}
  /\ sent' = 0
  /\ UNCHANGED <<input, show_result, candidates, tf, ic>>

\* Mutant: Err(Disconnected) is treated as Err(Empty), the caller keeps
\* waiting.
PollResultKeepsWaiting ==
  /\ result_receiver
  /\ IF channel.queue # <<>>
     THEN /\ candidates' = Head(channel.queue)
          /\ show_result' = TRUE
          /\ decryption_in_progress' = FALSE
          /\ result_receiver' = FALSE
          /\ channel' = [channel EXCEPT !.queue = Tail(@)]
     ELSE UNCHANGED <<appVars, channel>>
  /\ UNCHANGED <<input, thread, searchVars, result, sent, tf, ic>>

\* update(), result polling: try_recv on the kept receiver.  A queued
\* message is received even after the Sender is gone.
PollResult ==
  /\ result_receiver
  /\ IF channel.queue # <<>>
     THEN /\ candidates' = Head(channel.queue)             \* Ok(candidates)
          /\ show_result' = TRUE
          /\ decryption_in_progress' = FALSE
          /\ result_receiver' = FALSE
          /\ channel' = [channel EXCEPT !.queue = Tail(@)]
     ELSE IF channel.sender
     THEN UNCHANGED <<appVars, channel>>                   \* Err(Empty)
     ELSE /\ decryption_in_progress' = FALSE               \* Err(Disconnected)
          /\ result_receiver' = FALSE
          /\ UNCHANGED <<show_result, candidates, channel>>
  /\ UNCHANGED <<input, thread, searchVars, result, sent, tf, ic>>

\* show_candidates_dialog, the Close button.
CloseResults ==
  /\ show_result
  /\ show_result' = FALSE
  /\ candidates' = <<>>
  /\ UNCHANGED <<input, decryption_in_progress, result_receiver, channel, thread,
                 searchVars, result, sent, tf, ic>>
\* --------------------------------------------------------- the search thread
\* The outer values the for_each fans out over: `1..=max_key_length` in
\* decrypt_columnar_with_transpose, periods_to_check in decrypt_periodic.
OuterValues(in) ==
  IF in.cipher_type = "Columnar" THEN 1..in.max_key_length
  ELSE IF in.check_all_periods THEN in.period..in.max_key_length
  ELSE {in.period}

\* The inverse transform a task applies to one permutation.
transform_panics(in, permutation) ==
  IF in.cipher_type = "Columnar"
  THEN columnar_inv_panics(in.my_string, permutation, in.transpose)
  ELSE periodic_inv_panics(in.my_string, permutation)

\* Mutant: the Periodic search reads the flag too, and with it set inverts
\* by the transposed columnar layout.
transformFlaggedPeriodic(in, permutation) ==
  IF in.cipher_type = "Columnar" \/ in.transpose
  THEN columnar_inv(in.my_string, permutation, in.transpose)
  ELSE periodic_inv(in.my_string, permutation)

transform(in, permutation) ==
  IF in.cipher_type = "Columnar"
  THEN columnar_inv(in.my_string, permutation, in.transpose)
  ELSE periodic_inv(in.my_string, permutation)

\* decrypt_with_transpose -> decrypt_columnar_with_transpose: the empty heap
\* behind its Mutex, then the parallel for_each over the key lengths.
StartColumnar ==
  /\ thread = "started"
  /\ input.cipher_type = "Columnar"
  /\ thread' = "searching"
  /\ tasks' = [k \in OuterValues(input) |-> [pc |-> "ready", idx |-> 0, local |-> NoCandidate]]
  /\ heap' = {}
  /\ lock' = {}
  /\ UNCHANGED <<input, appVars, channel, result, discarded, sent, tf, ic>>

\* decrypt_with_transpose -> decrypt_periodic, likewise over the periods.
StartPeriodic ==
  /\ thread = "started"
  /\ input.cipher_type = "Periodic"
  /\ thread' = "searching"
  /\ tasks' = [k \in OuterValues(input) |-> [pc |-> "ready", idx |-> 0, local |-> NoCandidate]]
  /\ heap' = {}
  /\ lock' = {}
  /\ UNCHANGED <<input, appVars, channel, result, discarded, sent, tf, ic>>

\* decrypted_text and score for every text and permutation of the model,
\* computed once.
SearchKeys ==
  UNION {{PermsOfLen(l)[i] : i \in 1..Len(PermsOfLen(l))} : l \in 0..MaxKeyLen}
TaskArgs == {"Columnar", "Periodic"} \X SearchTexts \X BOOLEAN \X SearchKeys
DecryptedTable ==
  [a \in TaskArgs |->
     LET in == [cipher_type |-> a[1], my_string |-> a[2], transpose |-> a[3]]
     IN IF transform_panics(in, a[4])
        THEN [panicked |-> TRUE, text |-> <<>>, score |-> 0]
        ELSE [panicked |-> FALSE, text |-> transform(in, a[4]),
              score |-> Score(transform(in, a[4]))]] @@ <<>>

\* `let decrypted_text = ...; let score = ...;` for the permutation after
\* the idx already handled: the task's state once it has decrypted and
\* scored it (and waits for the lock), or once the transform has panicked.
Scored(task, k, in) ==
  LET permutation == PermsOfLen(k)[task.idx + 1]
      d == DecryptedTable[<<in.cipher_type, in.my_string, in.transpose, permutation>>]
  IN IF d.panicked
     THEN [task EXCEPT !.pc = "panicked", !.local = NoCandidate]
     ELSE [task EXCEPT !.pc = "scored",
                       !.local = [score |-> d.score, text |-> d.text,
                                  key |-> permutation]]

\* A task starts: it builds its permutations, then decrypts and scores the
\* first one, holding no lock.
TaskStart(k) ==
  /\ thread = "searching"
  /\ k \in DOMAIN tasks
  /\ tasks[k].pc = "ready"
  /\ tasks' = [tasks EXCEPT ![k] = Scored(tasks[k], k, input)]
  /\ UNCHANGED <<input, appVars, channel, thread, heap, lock, result,
                 discarded, sent, tf, ic>>

\* Mutant: the push without waiting for the Mutex.
TaskPushUnlocked(k) ==
  /\ thread = "searching"
  /\ k \in DOMAIN tasks
  /\ tasks[k].pc = "scored"
  /\ lock' = lock \cup {k}
  /\ heap' = heap \cup {tasks[k].local}
  /\ tasks' = [tasks EXCEPT ![k].pc = "pushed"]
  /\ UNCHANGED <<input, appVars, channel, thread, result, discarded, sent, tf, ic>>

\* `heap.lock().unwrap()` once the Mutex is free, then
\* `heap_guard.push(Reverse((score, decrypted_text, permutation)))`.
TaskPush(k) ==
  /\ thread = "searching"
  /\ k \in DOMAIN tasks
  /\ tasks[k].pc = "scored"
  /\ lock = {}
  /\ lock' = {k}
  /\ heap' = heap \cup {tasks[k].local}
  /\ tasks' = [tasks EXCEPT ![k].pc = "pushed"]
  /\ UNCHANGED <<input, appVars, channel, thread, result, discarded, sent, tf, ic>>

\* `if heap_guard.len() > 3 { heap_guard.pop(); }`; the guard is dropped at
\* the end of the loop body; the loop ends, or goes on to decrypt and score
\* the next permutation.
TaskEvict(k) ==
  /\ thread = "searching"
  /\ k \in DOMAIN tasks
  /\ tasks[k].pc = "pushed"
  /\ IF HeapOverCapacity(heap)
     THEN /\ heap' = heap \ {HeapPopped(heap)}
          /\ discarded' = discarded \cup {HeapPopped(heap)}
     ELSE UNCHANGED <<heap, discarded>>
  /\ lock' = lock \ {k}
  /\ LET next == [tasks[k] EXCEPT !.idx = @ + 1, !.local = NoCandidate]
     IN tasks' = [tasks EXCEPT ![k] =
                    IF next.idx = Len(PermsOfLen(k))
                    THEN [next EXCEPT !.pc = "done"]
                    ELSE Scored(next, k, input)]
  /\ UNCHANGED <<input, appVars, channel, thread, result, sent, tf, ic>>

\* Mutant: the extraction does not wait for the workers.
ExtractRankedEarly ==
  /\ thread = "searching"
  /\ lock = {}
  /\ result' = ToCandidates(SortRanked(heap))
  /\ thread' = "returned"
  /\ UNCHANGED <<input, appVars, channel, searchVars, sent, tf, ic>>

\* for_each has returned: `heap.lock()`, collect, sort, drop the lock, and
\* convert to Candidates, which decrypt_with_transpose returns.
ExtractRanked ==
  /\ thread = "searching"
  /\ \A k \in DOMAIN tasks : tasks[k].pc = "done"
  /\ lock = {}
  /\ result' = ToCandidates(SortRanked(heap))
  /\ thread' = "returned"
  /\ UNCHANGED <<input, appVars, channel, searchVars, sent, tf, ic>>

\* A task panicked: rayon lets the tasks already running finish, may or may
\* not run the ones not yet started, and resumes the panic in the search
\* thread, which unwinds and drops the Sender without sending.
SearchPanics ==
  /\ thread = "searching"
  /\ \E k \in DOMAIN tasks : tasks[k].pc = "panicked"
  /\ \A k \in DOMAIN tasks :
        \/ tasks[k].pc \in {"done", "panicked"}
        \/ tasks[k].pc = "ready"
  /\ thread' = "panicked"
  /\ channel' = [channel EXCEPT !.sender = FALSE]
  /\ UNCHANGED <<input, appVars, searchVars, result, sent, tf, ic>>

\* decrypt_vigenere and decrypt_beaufort on the inputs of the model that
\* do not panic, computed once (`@@ <<>>` makes the table an explicit one).
PolyArgs ==
  {a \in SearchTexts \X (0..MaxKeyLen) : ~decrypt_poly_panics(a[1], a[2])}
VigenereTable == [a \in PolyArgs |-> decrypt_vigenere(a[1], a[2])] @@ <<>>
BeaufortTable == [a \in PolyArgs |-> decrypt_beaufort(a[1], a[2])] @@ <<>>

\* decrypt_with_transpose -> decrypt_vigenere: sequential, returns its
\* candidates or panics in the grouping loop.
DecryptVigenere ==
  /\ thread = "started"
  /\ input.cipher_type = "Vigenere"
  /\ IF decrypt_poly_panics(input.my_string, input.period)
     THEN /\ thread' = "panicked"
          /\ channel' = [channel EXCEPT !.sender = FALSE]
          /\ UNCHANGED result
     ELSE /\ thread' = "returned"
          /\ result' = VigenereTable[<<input.my_string, input.period>>]
          /\ UNCHANGED channel
  /\ UNCHANGED <<input, appVars, searchVars, sent, tf, ic>>

\* decrypt_with_transpose -> decrypt_beaufort.
DecryptBeaufort ==
  /\ thread = "started"
  /\ input.cipher_type = "Beaufort"
  /\ IF decrypt_poly_panics(input.my_string, input.period)
     THEN /\ thread' = "panicked"
          /\ channel' = [channel EXCEPT !.sender = FALSE]
          /\ UNCHANGED result
     ELSE /\ thread' = "returned"
          /\ result' = BeaufortTable[<<input.my_string, input.period>>]
          /\ UNCHANGED channel
  /\ UNCHANGED <<input, appVars, searchVars, sent, tf, ic>>

\* `let _ = sender.send(result);` and the end of the closure, which drops
\* the Sender.
SendResult ==
  /\ thread = "returned"
  /\ channel' = [queue |-> Append(channel.queue, result), sender |-> FALSE]
  /\ sent' = sent + 1
  /\ thread' = "exited"
  /\ UNCHANGED <<input, appVars, searchVars, result, tf, ic>>

Next ==
  \/ ClickDecrypt
  \/ PollResult
  \/ CloseResults
  \/ StartColumnar
  \/ StartPeriodic
  \/ \E k \in 0..MaxKeyLen : TaskStart(k)
  \/ \E k \in 0..MaxKeyLen : TaskPush(k)
  \/ \E k \in 0..MaxKeyLen : TaskEvict(k)
  \/ ExtractRanked
  \/ SearchPanics
  \/ DecryptVigenere
  \/ DecryptBeaufort
  \/ SendResult

Spec == Init /\ [][Next]_vars

\* The steps of the spawned thread and of the pool's workers.
WorkerStep ==
  \/ StartColumnar
  \/ StartPeriodic
  \/ \E k \in 0..MaxKeyLen : TaskStart(k)
  \/ \E k \in 0..MaxKeyLen : TaskPush(k)
  \/ \E k \in 0..MaxKeyLen : TaskEvict(k)
  \/ ExtractRanked
  \/ SearchPanics
  \/ DecryptVigenere
  \/ DecryptBeaufort
  \/ SendResult

\* The operating system runs a thread that can take a step, and update()
\* runs every frame while a decryption is in progress (request_repaint).
\* The user's clicks are under no obligation.
LiveInit ==
  /\ Init
  /\ input.cipher_type \in {"Columnar", "Periodic"} => input.max_key_length <= MaxLiveKeyLen
  /\ input.cipher_type # "Columnar" => input.period <= MaxLiveKeyLen

FairSpec ==
  LiveInit /\ [][Next]_vars /\ WF_vars(WorkerStep) /\ WF_vars(PollResult)

\* ================================================= the transform round trips
\* The repository holds no encryption.  The forward transforms are the
\* ciphers the specification describes: the grid of the columnar cipher and
\* the order its columns are read in, the chunk permutation of the periodic
\* cipher, and the Vigenere shift.

\* Columnar transposition with key K: the plaintext fills a grid of
\* L = Len(K) columns (row by row in the default layout, column by column
\* in the transpose layout, the first n mod L columns one row longer), and
\* the columns are read out, the column col in place K[col].
ColumnarForward(plain, key, transpose) ==
  LET n == Len(plain)
      k_l == Len(key)
      s_l == n \div k_l
      r == n % k_l
      Rows(col) == IF col < r THEN s_l + 1 ELSE s_l
      Cell(row, col) == IF transpose THEN col * s_l + Min(col, r) + row
                        ELSE row * k_l + col
      RECURSIVE ReadOut(_)
      ReadOut(place) ==
        IF place >= k_l THEN <<>>
        ELSE LET col == (CHOOSE c1 \in 1..k_l : key[c1] = place) - 1
             IN [row1 \in 1..Rows(col) |-> plain[Cell(row1 - 1, col) + 1]]
                \o ReadOut(place + 1)
  IN ReadOut(0)

\* Periodic transposition with key K of length P: in every complete chunk
\* of P characters the character at position K[i] moves to position i; a
\* shorter last chunk stays.
PeriodicForward(plain, key) ==
  LET period == Len(key)
      n == Len(plain)
  IN [p1 \in 1..n |->
        LET start == ((p1 - 1) \div period) * period
            i == (p1 - 1) % period
        IN IF start + period > n THEN plain[p1]
           ELSE plain[start + key[i + 1] + 1]]

\* Vigenere encryption: cipher = (plain + shift) mod 26 on letters, the
\* case kept, every character counting for the key index.
VigenereForward(plain, key) ==
  [i1 \in 1..Len(plain) |->
     IF is_ascii_alphabetic(plain[i1])
     THEN LET base == IF is_uppercase(plain[i1]) THEN 65 ELSE 97
          IN ((plain[i1] - base + key[((i1 - 1) % Len(key)) + 1]) % 26) + base
     ELSE plain[i1]]

PlainAlphabet == {Ord["a"], Ord["b"]}
PlainTexts == SeqsUpTo(PlainAlphabet, MaxPlainLen)
PermKeys == UNION {{PermsOfLen(l)[i] : i \in 1..Len(PermsOfLen(l))} : l \in 1..MaxKeyLen}

\* 'A', 'z', 'e' and the space; and every letter of both cases with a digit,
\* a space and a brace for the one-character texts.
PolyAlphabet == {65, 122, 101, 32}
PolyTexts == SeqsUpTo(PolyAlphabet, MaxPolyLen)
AllChars == (65..90) \cup (97..122) \cup {32, 49, 123}
ShiftChoices == {0, 1, 13, 25}
ShiftKeys == SeqsUpTo(ShiftChoices, MaxShiftLen) \ {<<>>}

\* The fields of MyApp::default(): the search is idle during a round trip.
DefaultInput ==
  [my_string |-> <<>>, cipher_type |-> "Columnar",
   max_key_length |-> DefaultMaxKeyLength, period |-> DefaultPeriod,
   check_all_periods |-> FALSE, transpose |-> FALSE]

TfStart(family, plain, key, transpose) ==
  tf = [stage |-> "plain", family |-> family, plain |-> plain, key |-> key,
        transpose |-> transpose, cipher |-> <<>>, out |-> <<>>]

TransformInit ==
  /\ input = DefaultInput
  /\ decryption_in_progress = FALSE
  /\ result_receiver = FALSE
  /\ show_result = FALSE
  /\ candidates = <<>>
  /\ channel = [queue |-> <<>>, sender |-> FALSE]
  /\ thread = "idle"
  /\ tasks = NoTasks
  /\ heap = {}
  /\ lock = {}
  /\ result = <<>>
  /\ discarded = {}
  /\ sent = 0
  /\ ic = IcIdle
  /\ \/ \E t \in PlainTexts, k \in PermKeys, tr \in BOOLEAN :
          TfStart("Columnar", t, k, tr)
     \/ \E t \in PlainTexts, k \in PermKeys : TfStart("Periodic", t, k, FALSE)
     \/ \E f \in {"Vigenere", "Beaufort"}, t \in PolyTexts, k \in ShiftKeys :
          TfStart(f, t, k, FALSE)
     \/ \E f \in {"Vigenere", "Beaufort"}, c \in AllChars, sh \in 0..25 :
          TfStart(f, <<c>>, <<sh>>, FALSE)

notTf == <<input, appVars, channel, thread, searchVars, result, sent, ic>>

Encrypt(family, forward) ==
  /\ tf.stage = "plain"
  /\ tf.family = family
  /\ tf' = [tf EXCEPT !.stage = "encrypted", !.cipher = forward]
  /\ UNCHANGED notTf

Invert(family, panics, inverse) ==
  /\ tf.stage = "encrypted"
  /\ tf.family = family
  /\ tf' = IF panics THEN [tf EXCEPT !.stage = "panicked"]
           ELSE [tf EXCEPT !.stage = "decrypted", !.out = inverse]
  /\ UNCHANGED notTf

EncryptColumnar == Encrypt("Columnar", ColumnarForward(tf.plain, tf.key, tf.transpose))
EncryptPeriodic == Encrypt("Periodic", PeriodicForward(tf.plain, tf.key))
EncryptVigenere == Encrypt("Vigenere", VigenereForward(tf.plain, tf.key))
\* Beaufort is reciprocal: encryption is the rule of decrypt_beaufort.
EncryptBeaufort == Encrypt("Beaufort", BeaufortDecrypt(tf.plain, tf.key))

InvertColumnar ==
  Invert("Columnar", columnar_inv_panics(tf.cipher, tf.key, tf.transpose),
         columnar_inv(tf.cipher, tf.key, tf.transpose))
InvertPeriodic ==
  Invert("Periodic", periodic_inv_panics(tf.cipher, tf.key), periodic_inv(tf.cipher, tf.key))
InvertVigenere == Invert("Vigenere", FALSE, VigenereDecrypt(tf.cipher, tf.key))
InvertBeaufort == Invert("Beaufort", FALSE, BeaufortDecrypt(tf.cipher, tf.key))

TransformNext ==
  \/ EncryptColumnar
  \/ EncryptPeriodic
  \/ EncryptVigenere
  \/ EncryptBeaufort
  \/ InvertColumnar
  \/ InvertPeriodic
  \/ InvertVigenere
  \/ InvertBeaufort

TransformSpec == TransformInit /\ [][TransformNext]_vars

\* ======================================================= the Find IC button
\* An f32 of the estimator: NaN, or the exact rational num / den (rounding
\* is left out; 0.066 is 33 / 500).
NaN == [nan |-> TRUE, num |-> 0, den |-> 1]
RECURSIVE Gcd(_, _)
Gcd(a, b) == IF b = 0 THEN a ELSE Gcd(b, a % b)
Abs(x) == IF x < 0 THEN -x ELSE x
Rat(num, den) ==
  LET g == Gcd(Abs(num), den)
  IN [nan |-> FALSE, num |-> num \div g, den |-> den \div g]
Zero == Rat(0, 1)
EnglishIc == Rat(33, 500)
FAdd(a, b) == IF a.nan \/ b.nan THEN NaN
              ELSE Rat(a.num * b.den + b.num * a.den, a.den * b.den)
FSub(a, b) == IF a.nan \/ b.nan THEN NaN
              ELSE Rat(a.num * b.den - b.num * a.den, a.den * b.den)
FAbs(a) == IF a.nan THEN NaN ELSE Rat(Abs(a.num), a.den)
\* x / y of f32: 0 / 0 is NaN.
FDiv(num, den) == IF den = 0 /\ num = 0 THEN NaN ELSE Rat(num, den)
FDivBy(a, n) == IF a.nan THEN NaN ELSE Rat(a.num, a.den * n)
\* a.partial_cmp(&b) == Some(Less); None when either is NaN.
FLess(a, b) == a.num * b.den < b.num * a.den

\* char_groups[i % period] of index_of_coincidence, i from 0.
IcGroup(text, period, g) ==
  LET RECURSIVE Pick(_)
      Pick(i) == IF i > Len(text) THEN <<>>
                 ELSE IF (i - 1) % period = g THEN <<text[i]>> \o Pick(i + 1)
                 ELSE Pick(i + 1)
  IN Pick(1)

\* output[i] of index_of_coincidence for one group: the sum over the 26
\* letters of freq * (freq - 1) / (N * (N - 1)); with N < 2 every term is
\* 0 / 0.
GroupIc(group) ==
  LET n == Len(group)
      Freq(j) == Cardinality({i \in 1..n : group[i] = j})
      RECURSIVE Sum(_)
      Sum(j) == IF j > 122 THEN Zero
                ELSE FAdd(FDiv(Freq(j) * (Freq(j) - 1), n * (n - 1)), Sum(j + 1))
  IN Sum(97)

index_of_coincidence(text, period) ==
  [g1 \in 1..period |-> GroupIc(IcGroup(text, period, g1 - 1))]

\* One iteration of the loop of the Find IC handler: avg, score and the
\* candidate of one period.
IcCandidate(text, period) ==
  LET output == index_of_coincidence(text, period)
      RECURSIVE Sum(_)
      Sum(i) == IF i > Len(output) THEN Zero ELSE FAdd(output[i], Sum(i + 1))
      avg == FDivBy(Sum(1), Len(output))
  IN [name |-> period, score |-> FAbs(FSub(avg, EnglishIc)),
      text |-> [avg |-> avg, values |-> output]]

\* candidates.sort_by(|a, b| a.score.partial_cmp(&b.score).unwrap()): the
\* comparator runs when there are two candidates or more, and unwrap panics
\* on a NaN score.
SortByIc_panics(cs) == Len(cs) >= 2 /\ \E i \in 1..Len(cs) : cs[i].score.nan

\* The stable ascending sort, for scores that are not NaN.
SortByIc(cs) ==
  LET RECURSIVE Ins(_, _)
      Ins(c, sorted) ==
        IF sorted = <<>> THEN <<c>>
        ELSE IF FLess(c.score, Head(sorted).score) THEN <<c>> \o sorted
        ELSE <<Head(sorted)>> \o Ins(c, Tail(sorted))
      RECURSIVE Sort(_)
      Sort(i) == IF i = 0 THEN <<>> ELSE Ins(cs[i], Sort(i - 1))
  IN Sort(Len(cs))

IcKeep == 5
Overview(cs) == [name |-> 0, score |-> Zero, text |-> cs]

IcTexts == SeqsUpTo(SearchAlphabet, MaxIcLen)

FindIcInit ==
  /\ input = DefaultInput
  /\ decryption_in_progress = FALSE
  /\ result_receiver = FALSE
  /\ show_result = FALSE
  /\ candidates = <<>>
  /\ channel = [queue |-> <<>>, sender |-> FALSE]
  /\ thread = "idle"
  /\ tasks = NoTasks
  /\ heap = {}
  /\ lock = {}
  /\ result = <<>>
  /\ discarded = {}
  /\ sent = 0
  /\ tf = TfIdle
  /\ \E t \in IcTexts, m \in 1..MaxIcPeriod :
        ic = [stage |-> "clicked", text |-> t, max_period |-> m,
              period |-> 1, candidates |-> <<>>]

\* `for period in 1..=max_period`: one iteration.
FindIcPeriod ==
  /\ ic.stage = "clicked"
  /\ ic.period <= ic.max_period
  /\ ic' = [ic EXCEPT !.period = @ + 1,
                      !.candidates = Append(@, IcCandidate(ic.text, ic.period))]
  /\ UNCHANGED <<input, appVars, channel, thread, searchVars, result, sent, tf>>

\* After the loop: the sort, the overview in front, the truncation, and the
\* result window; or the panic of unwrap in the UI thread.
FindIcRank ==
  /\ ic.stage = "clicked"
  /\ ic.period > ic.max_period
  /\ IF SortByIc_panics(ic.candidates)
     THEN /\ ic' = [ic EXCEPT !.stage = "panicked"]
          /\ UNCHANGED <<candidates, show_result>>
     ELSE /\ ic' = [ic EXCEPT !.stage = "shown"]
          /\ candidates' = Truncate(<<Overview(ic.candidates)>> \o SortByIc(ic.candidates), IcKeep)
          /\ show_result' = TRUE
  /\ UNCHANGED <<input, decryption_in_progress, result_receiver, channel, thread,
                 searchVars, result, sent, tf>>

FindIcNext ==
  \/ FindIcPeriod
  \/ FindIcRank

FindIcSpec == FindIcInit /\ [][FindIcNext]_vars

\* =========================================== the polyalphabetic key search
\* decrypt_vigenere and decrypt_beaufort step by step on one text and
\* period: the frequency analysis, the key candidates, the ranked results.
MaxPeriod == 3
TopLettersOf(family) == IF family = "Beaufort" THEN BeaufortTopLetters ELSE VigenereTopLetters
EShiftOf(family) == IF family = "Beaufort" THEN BeaufortEShift ELSE VigenereEShift

\* Texts over 'A', 'z' and the space; the one-character texts over every
\* letter are added in KeySearchInit.
KeySearchTexts == SeqsUpTo({65, 122, 32}, MaxPolyLen)

KeySearchStart(family, text, period) ==
  tf = [stage |-> "called", family |-> family, text |-> text, period |-> period,
        key_positions |-> <<>>, key_candidates |-> <<>>, results |-> <<>>]

KeySearchInit ==
  /\ input = DefaultInput
  /\ decryption_in_progress = FALSE
  /\ result_receiver = FALSE
  /\ show_result = FALSE
  /\ candidates = <<>>
  /\ channel = [queue |-> <<>>, sender |-> FALSE]
  /\ thread = "idle"
  /\ tasks = NoTasks
  /\ heap = {}
  /\ lock = {}
  /\ result = <<>>
  /\ discarded = {}
  /\ sent = 0
  /\ ic = IcIdle
  /\ \/ \E f \in {"Vigenere", "Beaufort"}, t \in KeySearchTexts, p \in 0..MaxPeriod :
          KeySearchStart(f, t, p)
     \/ \E f \in {"Vigenere", "Beaufort"}, c \in AllChars, p \in 0..MaxPeriod :
          KeySearchStart(f, <<c>>, p)

\* char_groups, freq_table, the top letters and their shifts; or the panic
\* of `i % period`.
AnalyseGroups ==
  /\ tf.stage = "called"
  /\ tf' = IF CharGroups_panics(tf.text, tf.period)
           THEN [tf EXCEPT !.stage = "panicked"]
           ELSE [tf EXCEPT !.stage = "analysed",
                           !.key_positions =
                              KeyPositions(CharGroups(tf.text, tf.period),
                                           TopLettersOf(tf.family), EShiftOf(tf.family))]
  /\ UNCHANGED notTf

\* key_candidates
CombineShifts ==
  /\ tf.stage = "analysed"
  /\ tf' = [tf EXCEPT !.stage = "combined",
                      !.key_candidates = KeyCandidates(tf.key_positions, Len(tf.key_positions))]
  /\ UNCHANGED notTf

\* scored_results, sorted and truncated, as Candidates.
RankKeys ==
  /\ tf.stage = "combined"
  /\ tf' = [tf EXCEPT !.stage = "ranked",
                      !.results = PolyRank(tf.text, tf.period, tf.key_candidates,
                                           tf.family = "Beaufort")]
  /\ UNCHANGED notTf

KeySearchNext ==
  \/ AnalyseGroups
  \/ CombineShifts
  \/ RankKeys

KeySearchSpec == KeySearchInit /\ [][KeySearchNext]_vars

\* =================================================================== claims
\* The insert calls completed in the running search: each task has lived
\* through idx iterations of its loop.
InsertCalls ==
  SumSeq([k1 \in 1..(MaxKeyLen + 2) |->
            IF (k1 - 1) \in DOMAIN tasks THEN tasks[k1 - 1].idx ELSE 0])

\* C1: whenever no insert is in flight, after n completed insert calls (push,
\* then evict if over capacity) the heap holds exactly min(3, n) tuples, and
\* every retained score is >= every score discarded so far.
TopKInvariant ==
  lock = {} =>
    /\ Cardinality(heap) = Min(HeapCapacity, InsertCalls)
    /\ \A r \in heap : \A d \in discarded : r.score >= d.score

\* C1 witness: more inserts than the capacity have completed, and a retained
\* score lies strictly above a discarded one.
TopKWitness ==
  /\ lock = {}
  /\ InsertCalls > HeapCapacity + 1
  /\ \E r \in heap : \E d \in discarded : r.score > d.score

\* Every candidate a transposition search with these settings inserts,
\* whatever the order.
AllCandidates(in) ==
  {[score |-> Score(transform(in, PermsOfLen(k)[i])),
    text |-> transform(in, PermsOfLen(k)[i]),
    key |-> PermsOfLen(k)[i]] :
      <<k, i>> \in {ki \in (0..(MaxKeyLen + 1)) \X (1..Len(PermsOfLen(MaxKeyLen + 1))) :
                      ki[1] \in OuterValues(in) /\ ki[2] <= Len(PermsOfLen(ki[1]))}}

\* The search has run every task to its end.
WorkersFinished ==
  /\ thread \in {"returned", "exited"}
  /\ input.cipher_type \in {"Columnar", "Periodic"}

\* C2: once every worker has finished, whatever the interleaving, the heap
\* holds min(3, inserted) tuples, none of the tuples inserted and not
\* retained scores above a retained one, and the retained set is the one
\* the settings determine: the 3 greatest of all the candidates.
ConcurrentTopK ==
  WorkersFinished =>
    /\ heap \cup discarded = AllCandidates(input)
    /\ Cardinality(heap) = Min(HeapCapacity, Cardinality(AllCandidates(input)))
    /\ \A r \in heap : \A o \in (heap \cup discarded) \ heap : r.score >= o.score
    /\ heap = {c \in AllCandidates(input) :
                 Cardinality({o \in AllCandidates(input) : TupleLess(c, o)}) < HeapCapacity}

\* C2 witness: several workers have finished and tuples were evicted.
ConcurrentTopKWitness ==
  /\ WorkersFinished
  /\ Cardinality(DOMAIN tasks) >= 3
  /\ Cardinality(discarded) >= 3
  /\ \E r \in heap : \E d \in discarded : r.score > d.score

DescendingScores(list) ==
  \A i \in 1..Len(list) : \A j \in 1..Len(list) :
     i < j => list[i].score >= list[j].score

\* C3: for every cipher family the list a search returns, the message that
\* carries it and the list the window shows are in descending score order.
RankedDescending ==
  /\ DescendingScores(result)
  /\ \A m \in 1..Len(channel.queue) : DescendingScores(channel.queue[m])
  /\ DescendingScores(candidates)

\* C3 witness: a received list of three candidates whose scores differ.
RankedDescendingWitness ==
  /\ show_result
  /\ Len(candidates) = 3
  /\ candidates[1].score > candidates[2].score
  /\ candidates[2].score > candidates[3].score

\* How a search ended: the thread panicked ("fault"), or returned an empty
\* list or a list of scored candidates.  decrypt_with_transpose returns a
\* Vec<Candidate>: there is no other outcome.
SearchOutcome ==
  IF thread = "panicked" THEN "fault"
  ELSE IF thread \in {"returned", "exited"}
       THEN IF result = <<>> THEN "empty list" ELSE "scored candidates"
       ELSE "running"

\* C7: a search on the empty string ends with the "no solution" sentinel:
\* not with an empty list, not with scored candidates, not with a fault.
EmptyTextYieldsNoSolution ==
  (input.my_string = <<>> /\ SearchOutcome # "running")
    => SearchOutcome = "no solution"

\* C8: a key longer than the text, or a period of zero, is skipped: no
\* candidate is produced for it, and the search ends without a fault.
DegenerateInputSkipped ==
  /\ thread # "panicked"
  /\ \A c \in heap \cup discarded : Len(c.key) <= Len(input.my_string)
\* C4: for a text whose length is divisible by the key length L and a
\* permutation K of 0..L-1, the forward columnar transposition with K and
\* then columnar_inv with K give back the text, in both layouts.
ColumnarRoundTrip ==
  (tf.stage \in {"decrypted", "panicked"} /\ tf.family = "Columnar"
     /\ Len(tf.plain) % Len(tf.key) = 0)
    => tf.stage = "decrypted" /\ tf.out = tf.plain

\* C4 witness: the transpose layout, two rows of three columns, a key that
\* is not its own inverse, a ciphertext that differs from the text.
ColumnarRoundTripWitness ==
  /\ tf.stage = "decrypted"
  /\ tf.family = "Columnar"
  /\ tf.transpose
  /\ tf.key = <<1, 2, 0>>
  /\ Len(tf.plain) = 6
  /\ tf.cipher # tf.plain
  /\ tf.out = tf.plain

\* C5: for a text whose length is a multiple of the period P and a
\* permutation K of 0..P-1, the forward periodic transposition with K and
\* then periodic_inv with K give back the text.
PeriodicRoundTrip ==
  (tf.stage \in {"decrypted", "panicked"} /\ tf.family = "Periodic"
     /\ Len(tf.plain) % Len(tf.key) = 0)
    => tf.stage = "decrypted" /\ tf.out = tf.plain

\* C5 witness: two chunks of three under a key that is not its own inverse.
PeriodicRoundTripWitness ==
  /\ tf.stage = "decrypted"
  /\ tf.family = "Periodic"
  /\ tf.key = <<2, 0, 1>>
  /\ Len(tf.plain) = 6
  /\ tf.cipher # tf.plain
  /\ tf.out = tf.plain

CharClass(c) == IF is_uppercase(c) THEN "upper"
                ELSE IF is_ascii_alphabetic(c) THEN "lower" ELSE "other"

\* C6: for a shift vector with entries in 0..25, encrypting and then
\* applying the family's inverse rule with the same vector gives back the
\* text (for Beaufort the rule applied twice), the rule keeps the case of
\* every letter and leaves every other character as it is, in its place.
PolyRoundTrip ==
  (tf.stage = "decrypted" /\ tf.family \in {"Vigenere", "Beaufort"}) =>
    /\ tf.out = tf.plain
    /\ Len(tf.cipher) = Len(tf.plain)
    /\ \A i \in 1..Len(tf.cipher) :
          /\ CharClass(tf.out[i]) = CharClass(tf.cipher[i])
          /\ CharClass(tf.cipher[i]) = "other" => tf.out[i] = tf.cipher[i]
          /\ tf.family = "Beaufort" =>
               /\ CharClass(tf.cipher[i]) = CharClass(tf.plain[i])
               /\ CharClass(tf.plain[i]) = "other" => tf.cipher[i] = tf.plain[i]

\* C6 witness: a Vigenere round trip over an upper-case letter, a space
\* and a lower-case letter that wraps around, under two distinct shifts.
PolyRoundTripWitness ==
  /\ tf.stage = "decrypted"
  /\ tf.family = "Vigenere"
  /\ tf.plain = <<65, 32, 122>>
  /\ tf.key = <<25, 1>>
  /\ tf.cipher = <<90, 32, 121>>
  /\ tf.out = tf.plain
\* C9: for every period and text, a position group with fewer than two
\* characters contributes zero to the period's average, no group value and
\* no score is undefined (NaN), and the ranking of the periods does not
\* fail on an undefined score.
IcDivisionGuarded ==
  /\ ic.stage # "panicked"
  /\ ic.stage \in {"clicked", "shown"} =>
       \A i \in 1..Len(ic.candidates) :
          LET c == ic.candidates[i]
          IN /\ ~c.score.nan
             /\ \A g \in 1..c.name :
                   /\ ~c.text.values[g].nan
                   /\ Len(IcGroup(ic.text, c.name, g - 1)) < 2 => c.text.values[g] = Zero
\* C10: a started search sends one result message at its end, or none when
\* the thread dies; the receiver is kept exactly while the decryption is in
\* progress; and the polling caller always leaves the in-progress state:
\* after a sent result it shows it, and on a closed channel without a
\* message it clears decryption_in_progress and drops the receiver.
SingleValueHandoff ==
  /\ [](/\ sent <= 1
        /\ Len(channel.queue) <= sent
        /\ thread = "exited" => sent = 1
        /\ thread # "exited" => sent = 0
        /\ decryption_in_progress <=> result_receiver)
  /\ decryption_in_progress ~> ~decryption_in_progress
  /\ (decryption_in_progress /\ thread = "exited")
       ~> (~decryption_in_progress /\ show_result /\ candidates = result)
  /\ (decryption_in_progress /\ thread = "panicked")
       ~> (~decryption_in_progress /\ ~result_receiver /\ thread = "panicked")

\* C10 witness: the thread died without a message and the caller has left
\* the in-progress state and dropped the receiver.
SingleValueHandoffWitness ==
  /\ thread = "panicked"
  /\ sent = 0
  /\ channel = [queue |-> <<>>, sender |-> FALSE]
  /\ ~decryption_in_progress
  /\ ~result_receiver

\* ------------------------------------------------------------ the lifecycle
\* The worker thread of the search exists and has not ended.
WorkerAlive == thread \in {"started", "searching", "returned"}

\* Position of the thread in its run; a run only moves forward.
ThreadRank ==
  [st \in {"idle", "started", "searching", "returned", "exited", "panicked"} |->
     CASE st = "idle" -> 0 [] st = "started" -> 1 [] st = "searching" -> 2
       [] st = "returned" -> 3 [] OTHER -> 4]

RECURSIVE Factorial(_)
Factorial(n) == IF n = 0 THEN 1 ELSE n * Factorial(n - 1)

\* Every permutation of 0..l-1, as a sequence.
PermutationsOf(l) ==
  {key \in [1..l -> 0..(l - 1)] : \A i, j \in 1..l : key[i] = key[j] => i = j}

\* The keys of length l offered to the collector so far.
OfferedKeys(l) == {c.key : c \in {o \in heap \cup discarded : Len(o.key) = l}}

\* The pushes task k has made so far.
Pushes(k) == tasks[k].idx + (IF tasks[k].pc = "pushed" THEN 1 ELSE 0)

\* C12: a columnar search with maximum M has one worker for every key
\* length 1..M and no other; a worker offers to the collector the candidate
\* of each permutation it has decrypted and scored, none twice; a worker
\* that is done has offered every permutation of 0..L-1, L! of them; and
\* the search returns after the sum of L! offers.
ColumnarKeySpaceExhaustive ==
  (input.cipher_type = "Columnar" /\ thread \in {"searching", "returned", "exited"}) =>
    /\ DOMAIN tasks = 1..input.max_key_length
    /\ \A l \in DOMAIN tasks :
          /\ OfferedKeys(l) \subseteq PermutationsOf(l)
          /\ Cardinality(OfferedKeys(l)) = Pushes(l)
          /\ Cardinality({c \in heap \cup discarded : Len(c.key) = l}) = Pushes(l)
          /\ tasks[l].pc = "done" =>
               /\ OfferedKeys(l) = PermutationsOf(l)
               /\ Pushes(l) = Factorial(l)
    /\ thread \in {"returned", "exited"} =>
          /\ \A l \in DOMAIN tasks : tasks[l].pc = "done"
          /\ InsertCalls = SumSeq([l \in 1..input.max_key_length |-> Factorial(l)])
          /\ \A c \in heap \cup discarded :
                /\ c.text = columnar_inv(input.my_string, c.key, input.transpose)
                /\ c.score = english_score(c.text)

\* C12 witness: the search over the key lengths 1..3 has returned after
\* 1 + 2 + 6 offers.
ColumnarKeySpaceWitness ==
  /\ input.cipher_type = "Columnar"
  /\ input.max_key_length = 3
  /\ input.my_string # <<>>
  /\ thread = "returned"
  /\ Cardinality(heap \cup discarded) = 9

\* The periods decrypt_periodic is to explore under the settings.
SelectedPeriods ==
  IF input.check_all_periods THEN input.period..input.max_key_length
  ELSE {input.period}

\* C13: a periodic search has one worker for every period from the
\* configured period up to the configured maximum when check-all-periods
\* is set, and for the configured period alone, whatever the maximum, when
\* it is not; every one of these periods is explored with all its
\* permutations: no worker fails, a finished worker has offered every
\* permutation of its period, and the search ends with every worker done.
PeriodSelection ==
  (input.cipher_type = "Periodic" /\ thread \notin {"idle", "started"}) =>
    /\ DOMAIN tasks = SelectedPeriods
    /\ thread # "panicked"
    /\ \A p \in DOMAIN tasks :
          /\ tasks[p].pc # "panicked"
          /\ tasks[p].pc = "done" =>
               /\ OfferedKeys(p) = PermutationsOf(p)
               /\ Pushes(p) = Factorial(p)
    /\ thread \in {"returned", "exited"} => \A p \in DOMAIN tasks : tasks[p].pc = "done"

\* The same for a configured period of one or more.
PeriodSelectionFromOne == input.period >= 1 => PeriodSelection

RECURSIVE Power(_, _)
Power(b, x) == IF x = 0 THEN 1 ELSE b * Power(b, x - 1)

\* The keys of a list of key candidates.
KeySet(keys) == {keys[i] : i \in 1..Len(keys)}

\* C14: for a period P >= 1 the key candidates are the Cartesian product of
\* the per-position shift lists: every key has length P and shifts in
\* 0..25, there are at most N^P keys (N = 3 for Vigenere, 2 for Beaufort),
\* every combination of one listed shift per position is a key, and at
\* most 5 candidates are returned, each under one of the keys.
KeyCandidatesAreProduct ==
  (tf.stage \in {"combined", "ranked"} /\ tf.period >= 1) =>
    LET n == TopLettersOf(tf.family)
        keys == tf.key_candidates
        lists == tf.key_positions
    IN /\ Len(lists) = tf.period
       /\ \A g \in 1..Len(lists) : Len(lists[g]) = n
       /\ \A i \in 1..Len(keys) :
             /\ Len(keys[i]) = tf.period
             /\ \A j \in 1..tf.period : keys[i][j] \in 0..25
       /\ Len(keys) <= Power(n, tf.period)
       /\ \A choice \in [1..tf.period -> 1..n] :
             [j \in 1..tf.period |-> lists[j][choice[j]]] \in KeySet(keys)
       /\ \A i \in 1..Len(keys) :
             \E choice \in [1..tf.period -> 1..n] :
                keys[i] = [j \in 1..tf.period |-> lists[j][choice[j]]]
       /\ tf.stage = "ranked" =>
             /\ Len(tf.results) <= PolyKeep
             /\ Len(tf.results) = Min(PolyKeep, Len(keys))
             /\ \A i \in 1..Len(tf.results) :
                   \E k \in KeySet(keys) :
                      tf.results[i].text.key = [j \in 1..Len(k) |-> k[j] + 97]

\* C14 witness: a Vigenere search of period 3 with its 27 keys, 5 returned.
KeyCandidatesWitness ==
  /\ tf.stage = "ranked"
  /\ tf.family = "Vigenere"
  /\ tf.period = 3
  /\ Len(tf.text) = 3
  /\ Cardinality(KeySet(tf.key_candidates)) = 27
  /\ Len(tf.results) = 5

\* -------------------------------------------------------- the collector
\* The tasks between their push and the end of their check-and-evict step.
InCriticalSection == {k \in DOMAIN tasks : tasks[k].pc = "pushed"}

\* C15: at most one worker holds the Mutex, and a worker is between its
\* push and its check-and-evict step exactly while it holds it; the heap
\* changes only in the holder's push, which takes the free Mutex, and in
\* the holder's check-and-evict step, which releases it, with no step of
\* another worker on the heap in between; a worker decrypts and scores
\* while it does not hold the Mutex; and the ranking reads the heap with
\* the Mutex free and every worker done.
CollectorMutualExclusion ==
  /\ [](/\ Cardinality(lock) <= 1
        /\ InCriticalSection = lock
        /\ \A k \in DOMAIN tasks : tasks[k].pc = "scored" => k \notin lock)
  /\ [][/\ (heap' # heap /\ thread' = "searching" /\ thread = "searching") =>
             \/ \E k \in DOMAIN tasks :
                   /\ lock = {} /\ lock' = {k}
                   /\ tasks[k].pc = "scored"
                   /\ heap' = heap \cup {tasks[k].local}
             \/ \E k \in DOMAIN tasks :
                   /\ lock = {k} /\ lock' = {}
                   /\ heap' \subseteq heap
                   /\ Cardinality(heap') <= HeapCapacity
        /\ \A k \in lock :
             \/ lock' = lock /\ heap' = heap /\ tasks'[k] = tasks[k]
             \/ lock' = {} /\ tasks'[k].pc # "pushed"
        /\ \A k \in DOMAIN tasks :
             (thread' = "searching" /\ k \in DOMAIN tasks'
                /\ tasks'[k].local # tasks[k].local /\ tasks'[k].pc = "scored")
               => (k \notin lock' /\ heap' \subseteq heap)
        /\ (thread = "searching" /\ thread' = "returned") =>
             /\ lock = {} /\ lock' = {}
             /\ InCriticalSection = {}
             /\ \A k \in DOMAIN tasks : tasks[k].pc = "done"
             /\ heap' = heap
       ]_vars

\* C15 witness: one worker holds the Mutex with the heap over capacity
\* while another, its candidate scored, waits for it.
CollectorMutualExclusionWitness ==
  /\ thread = "searching"
  /\ \E k \in DOMAIN tasks : lock = {k} /\ tasks[k].pc = "pushed"
  /\ \E k \in DOMAIN tasks : k \notin lock /\ tasks[k].pc = "scored"
  /\ Cardinality(heap) = HeapCapacity + 1

\* C16 as stated: the heap never holds more than K = 3 entries.
HeapNeverOverCapacity == Cardinality(heap) <= HeapCapacity

\* C16: the heap holds at most K = 3 entries whenever the Mutex is free,
\* and at most K + 1 = 4 inside an insert, between its push and its pop.
HeapWithinCapacity ==
  /\ Cardinality(heap) <= HeapCapacity + 1
  /\ lock = {} => Cardinality(heap) <= HeapCapacity
  /\ Cardinality(heap) = HeapCapacity + 1 => lock # {}

\* C16 witness: the Mutex is free, the heap is full and an entry has been
\* evicted.
HeapWithinCapacityWitness ==
  /\ thread = "searching"
  /\ lock = {}
  /\ Cardinality(heap) = HeapCapacity
  /\ discarded # {}

\* The search runs over the collector (Columnar or Periodic).
CollectorSearch == input.cipher_type \in {"Columnar", "Periodic"}

ColumnarInvBijective ==
  (tf.family = "Columnar" /\ tf.stage \in {"decrypted", "panicked"}) =>
    LET n == Len(tf.cipher)
        writes == ColumnWrites(KeyInv(tf.key), 1, 0, n, tf.transpose)
    IN /\ tf.stage = "decrypted"
       /\ Len(writes) = n
       /\ \A w \in 1..Len(writes) :
             /\ writes[w].c_index = w - 1
             /\ writes[w].o_index \in 0..(n - 1)
       /\ \A o \in 0..(n - 1) :
             Cardinality({w \in 1..Len(writes) : writes[w].o_index = o}) = 1
       /\ Len(tf.out) = n
       /\ \A w \in 1..Len(writes) :
             tf.out[writes[w].o_index + 1] = tf.cipher[writes[w].c_index + 1]
       /\ \A o \in 1..n : tf.out[o] # 0

\* C18 witness: the transpose layout with columns of unequal length, the key
\* shorter than the text (5 characters) or longer than it (2 characters).
ColumnarInvBijectiveWitness ==
  /\ tf.family = "Columnar"
  /\ tf.stage = "decrypted"
  /\ tf.transpose
  /\ tf.key = <<1, 2, 0>>
  /\ Len(tf.cipher) \in {2, 5}
  /\ Len(tf.out) = Len(tf.cipher)

\* The positions (1-based) of chunk number c (0-based) of a text of n
\* characters cut by chars.chunks(period).
ChunkPositions(c, period, n) == {p1 \in 1..n : (p1 - 1) \div period = c}

\* How often the character ch stands at the positions ps of text.
CountIn(text, ps, ch) == Cardinality({p1 \in ps : text[p1] = ch})

\* C19: with a permutation key of length P, periodic_inv moves, in every
\* complete chunk of P characters, the character at chunk position i to
\* chunk position key[i], and returns a shorter last chunk unchanged; the
\* output is as long as the input and every chunk of the output is a
\* rearrangement of the same chunk of the input.
PeriodicInvChunks ==
  (tf.family = "Periodic" /\ tf.stage \in {"decrypted", "panicked"}) =>
    LET P == Len(tf.key)
        n == Len(tf.cipher)
        complete == n \div P
    IN /\ tf.stage = "decrypted"
       /\ Len(tf.out) = n
       /\ \A c \in 0..(complete - 1) : \A i \in 0..(P - 1) :
             tf.out[c * P + tf.key[i + 1] + 1] = tf.cipher[c * P + i + 1]
       /\ \A p1 \in (complete * P + 1)..n : tf.out[p1] = tf.cipher[p1]
       /\ \A c \in 0..complete : \A ch \in PlainAlphabet :
             CountIn(tf.out, ChunkPositions(c, P, n), ch)
               = CountIn(tf.cipher, ChunkPositions(c, P, n), ch)

\* C19 witness: a text of one complete chunk and a shorter last chunk under a
\* key of three positions that is not its own inverse, the complete chunk
\* rearranged.
PeriodicInvChunksWitness ==
  /\ tf.family = "Periodic"
  /\ tf.stage = "decrypted"
  /\ tf.key = <<1, 2, 0>>
  /\ Len(tf.cipher) = 5
  /\ tf.out # tf.cipher
  /\ tf.out[4] # tf.out[5]

\* ------------------------------------------------------------ derived shifts
\* Every value of a sequence of byte computations fits a u8.
FitsU8(steps) == \A i \in 1..Len(steps) : steps[i] \in 0..255

\* Decrypting letter p, in either case, under shift gives 'e' resp. 'E', no
\* byte computation leaving 0..255 and the letter index staying in 0..25.
DecryptsToE(family, p, shift) ==
  \A base \in {65, 97} :
    LET c == p + base
        steps == IF family = "Beaufort" THEN BeaufortByteSteps(c, shift)
                 ELSE VigenereByteSteps(c, shift)
        decrypted == IF family = "Beaufort" THEN BeaufortChar(c, shift)
                     ELSE VigenereChar(c, shift)
    IN /\ FitsU8(steps)
       /\ steps[1] \in 0..25
       /\ decrypted = steps[4]
       /\ decrypted - base \in 0..25
       /\ decrypted - base = 4

\* C20: the shift derived for a chosen letter p maps p to 'e': for every
\* letter index p in 0..25 the Vigenere rule under (p + 22) mod 26 and the
\* Beaufort rule under (p + 4) mod 26 give index 4, and so does every shift
\* the key search derived for a top letter of a group; the byte arithmetic
\* never underflows.
DerivedShiftsMapToE ==
  /\ \A p \in 0..25 :
        /\ (p + VigenereEShift) % 26 = (p + 22) % 26
        /\ (p + BeaufortEShift) % 26 = (p + 4) % 26
        /\ DecryptsToE("Vigenere", p, (p + VigenereEShift) % 26)
        /\ DecryptsToE("Beaufort", p, (p + BeaufortEShift) % 26)
  /\ (tf.stage \in {"analysed", "combined", "ranked"}) =>
        LET groups == CharGroups(tf.text, tf.period)
        IN /\ Len(tf.key_positions) = tf.period
           /\ \A g \in 1..tf.period :
                 LET top == TopPositions(FreqTable(groups[g]), TopLettersOf(tf.family))
                 IN /\ Len(tf.key_positions[g]) = TopLettersOf(tf.family)
                    /\ \A k \in 1..TopLettersOf(tf.family) :
                          /\ tf.key_positions[g][k] \in 0..25
                          /\ DecryptsToE(tf.family, top[k], tf.key_positions[g][k])

\* C20 witness: the shifts were derived for the text "z" in one group, the
\* sum p + 22 resp. p + 4 of its most frequent letter wrapping round 26.
DerivedShiftsWitness ==
  /\ tf.stage = "analysed"
  /\ tf.text = <<122>>
  /\ tf.period = 1
  /\ tf.key_positions[1][1] = (IF tf.family = "Beaufort" THEN 3 ELSE 21)

\* ------------------------------------------------------- the transpose flag
\* decrypt_with_transpose(text, transpose) of a Decrypter with the settings
\* in, as a function of its arguments: whether the search panics, and the
\* candidates it returns otherwise.  Only the Columnar arm hands transpose
\* on; the transposition searches return the HeapCapacity greatest of their
\* tuples, ranked.
decrypt_with_transpose(in, transpose) ==
  IF in.cipher_type \in {"Vigenere", "Beaufort"}
  THEN IF decrypt_poly_panics(in.my_string, in.period)
       THEN [panicked |-> TRUE, candidates |-> <<>>]
       ELSE [panicked |-> FALSE,
             candidates |-> IF in.cipher_type = "Vigenere"
                            THEN VigenereTable[<<in.my_string, in.period>>]
                            ELSE BeaufortTable[<<in.my_string, in.period>>]]
  ELSE LET keys == UNION {{PermsOfLen(k)[i] : i \in 1..Len(PermsOfLen(k))} :
                            k \in OuterValues(in)}
           d == [key \in keys |->
                   DecryptedTable[<<in.cipher_type, in.my_string, transpose, key>>]]
           all == {[score |-> d[key].score, text |-> d[key].text, key |-> key] :
                      key \in keys}
           best == {c \in all :
                      Cardinality({o \in all : TupleLess(c, o)}) < HeapCapacity}
       IN IF \E key \in keys : d[key].panicked
          THEN [panicked |-> TRUE, candidates |-> <<>>]
          ELSE [panicked |-> FALSE, candidates |-> ToCandidates(SortRanked(best))]

\* C21: for a Periodic, Vigenere or Beaufort search decrypt_with_transpose
\* gives the same with transpose = true as with transpose = false, and the
\* search that ran with one value of the flag ended as it would have with
\* the other value: with the same candidates, or with a panic.
TransposeOnlyColumnar ==
  input.cipher_type # "Columnar" =>
    LET other == decrypt_with_transpose(input, ~input.transpose)
    IN /\ decrypt_with_transpose(input, TRUE) = decrypt_with_transpose(input, FALSE)
       /\ thread \in {"returned", "exited"} =>
             ~other.panicked /\ result = other.candidates
       /\ thread = "panicked" => other.panicked

\* C21 witness: a Periodic search of period 3 run with the flag set has
\* returned its three candidates, or a Vigenere or Beaufort search run with
\* the flag set has returned candidates.
TransposeOnlyColumnarWitness ==
  /\ input.transpose
  /\ thread = "exited"
  /\ \/ /\ input.cipher_type = "Periodic"
        /\ input.period = 3
        /\ Len(result) = HeapCapacity
     \/ /\ input.cipher_type \in {"Vigenere", "Beaufort"}
        /\ Len(result) >= 2
=============================================================================
